---- MODULE Spec2Model ----
(***************************************************************************)
(* Model of lm/main.py: the training driver of transformer-lm.             *)
(*                                                                         *)
(* One process per device runs main(); the processes meet at the process   *)
(* group rendezvous and at the gradient all-reduce of every backward pass. *)
(* The state is each process's position in main()/train()/save()/          *)
(* validate(), its step counter, its loss meter, the number of optimizer   *)
(* updates its parameters contain, and the run directory with its files.   *)
(* A file write or copy is two steps (the destination is truncated, then   *)
(* holds the whole content), so a stop in between leaves a partial file.   *)
(* KeyboardInterrupt can be raised at any point inside train() and inside  *)
(* the handler.                                                            *)
(***************************************************************************)
EXTENDS Integers, Sequences, FiniteSets, TLC

\* ------------------------------------------------------------ bounds
MaxDevices == 2      \* torch.cuda.device_count() ranges over 0..MaxDevices
MaxAccum == 2        \* g_accum_gradients ranges over None, 0..MaxAccum
MaxEvery == 2        \* save_every, validate_every, log_every range over 1..MaxEvery
MaxEpochs == 2       \* epochs ranges over 1..MaxEpochs
MaxEpochSize == 3    \* len(train) is 1..MaxEpochSize times the tokens of a step
MaxBudgetUnits == 3  \* max_tokens ranges over None, k * n_ctx * batch_size, k in 1..MaxBudgetUnits
MaxLen == 9          \* corpus lengths of the batch sampler checks
MaxCtx == 3          \* context lengths of the batch sampler checks
MaxBatch == 3        \* batch sizes of the batch sampler checks

\* The value None of an optional argument (g_accum_gradients, validate_every,
\* device_id).  max_tokens=None is the falsy 0 of `if max_tokens and ...`.
None == 0 - 1

\* ------------------------------------------------------------ variables
VARIABLES
    cfg,        \* the arguments of main() and the state the run starts from
    pc,         \* pc[p]: where process p is
    ret,        \* ret[p]: where save()/validate() returns to
    step,       \* step[p]: the nonlocal step of train()
    epoch,      \* epoch[p]: the epoch of the outer loop (0 before the loop)
    it,         \* it[p]: iterations of the inner loop begun in this epoch
    mb,         \* mb[p]: micro-batches of the current train_step done
    upd,        \* upd[p]: optimizer.step() calls done (the model and optimizer state)
    barr,       \* barr[p]: gradient all-reduces p has entered
    grp,        \* grp[p]: p has entered init_process_group
    bound,      \* bound[p]: p has created its device and model
    loss_meter, \* loss_meter[p]: len(loss_meter.values)
    losses,     \* losses[p]: len(losses.values) of the running validation
    vb,         \* vb[p]: batches of the running validation consumed
    dir,        \* the run directory
    saveCalls,  \* save() calls begun by a process that passed the is_main gate
    savesDone,  \* save() calls that ran to their end
    effects,    \* effects[p]: the kinds of side effects p has performed
    means,      \* means[p]: the last AverageMeter.mean() call of p, and its step
    validDone,  \* validDone[p]: validation passes p has completed
    intr,       \* intr[p]: the KeyboardInterrupt p caught in train(), if any
    exit,       \* exit[p]: exit status (None while running)
    smp         \* the batch sampler under check: its arguments and result

vars == <<cfg, pc, ret, step, epoch, it, mb, upd, barr, grp, bound, loss_meter,
          losses, vb, dir, saveCalls, savesDone, effects, means, validDone,
          intr, exit, smp>>

\* the variables of the training run
runvars == <<cfg, pc, ret, step, epoch, it, mb, upd, barr, grp, bound, loss_meter,
             losses, vb, dir, saveCalls, savesDone, effects, means, validDone,
             intr, exit>>

\* ------------------------------------------------------------ files
Files == {".lm", "params.json", "model.pt", "optim.pt",
          "model-prev.pt", "optim-prev.pt", "other"}

\* A file: present or not; ok = FALSE while a write or copy is under way (or
\* was cut short); call = the save() call that produced the content (0: an
\* earlier run); step and upd = the step counter and the number of optimizer
\* updates the content records.
NoFile == [present |-> FALSE, ok |-> FALSE, call |-> 0, step |-> 0, upd |-> 0]
Plain == [present |-> TRUE, ok |-> TRUE, call |-> 0, step |-> 0, upd |-> 0]
OldCkpt == [present |-> TRUE, ok |-> TRUE, call |-> 0, step |-> 1, upd |-> 0]
Partial(f) == [f EXCEPT !.ok = FALSE]

NoDir == [exists |-> FALSE, f |-> [x \in Files |-> NoFile]]
\* a directory that is not a run directory: no .lm marker
ForeignDir == [exists |-> TRUE,
               f |-> [x \in Files |-> IF x = "other" THEN Plain ELSE NoFile]]
\* the run directory of an earlier run, with its checkpoint
OldRunDir == [exists |-> TRUE,
              f |-> [x \in Files |->
                       IF x \in {".lm", "params.json"} THEN Plain
                       ELSE IF x \in {"model.pt", "optim.pt"} THEN OldCkpt
                       ELSE NoFile]]
InitialDirs == {NoDir, ForeignDir, OldRunDir}

\* the backup name built without the stem: both backups land in one file
Prev_nostem(path) == "model-prev.pt"

\* path.stem + '-prev' + path.suffix
Prev(path) == IF path = "model.pt" THEN "model-prev.pt" ELSE "optim-prev.pt"

\* ------------------------------------------------------------ batch sampler
\* range(start, stop, stride) of Python, as a sequence
RECURSIVE Range(_, _, _)
Range(start, stop, stride) ==
    IF start >= stop THEN <<>>
    ELSE <<start>> \o Range(start + stride, stop, stride)

\* dataset[idx: idx + n_ctx] of a dataset of length L: the half-open interval
\* of positions <<first, last + 1>> the slice holds (a slice is cut at L)
Slice(L, idx, n_ctx) ==
    LET lo == IF idx < L THEN idx ELSE L
        hi == IF idx + n_ctx < L THEN idx + n_ctx ELSE L
    IN  <<lo, hi>>

\* _batch_it(it, batch_size), started with batch = []
RECURSIVE _batch_it(_, _, _)
_batch_it(xs, batch, batch_size) ==
    IF xs = <<>> THEN <<batch>>
    ELSE LET b == Append(batch, Head(xs))
         IN  IF Len(b) = batch_size
             THEN <<b>> \o _batch_it(Tail(xs), <<>>, batch_size)
             ELSE _batch_it(Tail(xs), b, batch_size)

\* the start indices of _valid_batch_iter
start_indices(L, n_ctx) == Range(0, L - n_ctx, n_ctx)

\* the windows the generator of _valid_batch_iter yields, in order
valid_windows(L, n_ctx) ==
    LET s == start_indices(L, n_ctx)
    IN  [i \in 1..Len(s) |-> Slice(L, s[i], n_ctx)]

\* _valid_batch_iter(dataset, batch_size, n_ctx): the batches, in order
_valid_batch_iter(L, batch_size, n_ctx) ==
    _batch_it(valid_windows(L, n_ctx), <<>>, batch_size)

\* ------------------------------------------------------------ arguments
RunCtx == 2          \* n_ctx of the training runs
RunBatch == 2        \* batch_size of the training runs (the default)
Unit == RunCtx * RunBatch

BaseCfg == [n_devices |-> 1, g_accum_gradients |-> None, clean |-> FALSE,
            dir0 |-> NoDir, only_validate |-> FALSE, epochs |-> 1,
            train_len |-> Unit, save_every |-> 1, validate_every |-> None,
            log_every |-> 1, max_tokens |-> 0,
            valid_len |-> RunCtx * (RunBatch + 1),
            n_ctx |-> RunCtx, batch_size |-> RunBatch]

\* validation corpora: RunBatch windows (the last batch of _batch_it is empty)
\* and RunBatch + 1 windows (the last batch is short)
ValidLens == {RunCtx * (RunBatch + 1), RunCtx * (RunBatch + 2)}

\* The runs checked are six families of arguments; within a family the
\* arguments named vary over their whole ranges and the others are the ones
\* of BaseCfg.

\* how a run starts: devices, accumulation, clean flag, run directory, mode
StartupCfgs ==
    {[BaseCfg EXCEPT !.n_devices = d, !.g_accum_gradients = g, !.clean = c,
                     !.dir0 = d0, !.only_validate = ov] :
        d \in 0..MaxDevices, g \in {None} \cup 0..MaxAccum, c \in BOOLEAN,
        d0 \in InitialDirs, ov \in BOOLEAN}

\* the schedule of one device: epochs, epoch size, save and validation periods
SchedCfgs ==
    {[BaseCfg EXCEPT !.g_accum_gradients = 1, !.epochs = e,
                     !.train_len = t * Unit, !.save_every = s,
                     !.validate_every = v] :
        e \in 1..MaxEpochs, t \in 1..MaxEpochSize, s \in 1..MaxEvery,
        v \in 1..MaxEvery}

\* the meter of one device: accumulation, logging period, validation corpus
MeterCfgs ==
    {[BaseCfg EXCEPT !.g_accum_gradients = g, !.log_every = l,
                     !.train_len = MaxEpochSize * g * Unit, !.valid_len = vl] :
        g \in 1..MaxAccum, l \in 1..MaxEvery, vl \in ValidLens}

\* the token budget of one device against the save and validation periods
BudgetCfgs ==
    {[BaseCfg EXCEPT !.g_accum_gradients = 1, !.max_tokens = m * Unit,
                     !.train_len = MaxEpochSize * Unit, !.save_every = s,
                     !.validate_every = v] :
        m \in 1..MaxBudgetUnits, s \in 1..MaxEvery,
        v \in {None} \cup 1..MaxEvery}

\* the token budget of one device against accumulation, epochs and epoch size
BudgetStepCfgs ==
    {[BaseCfg EXCEPT !.g_accum_gradients = g, !.max_tokens = m * Unit,
                     !.epochs = e, !.train_len = t * g * Unit] :
        m \in 1..MaxBudgetUnits, g \in 1..MaxAccum, e \in 1..MaxEpochs,
        t \in 1..MaxEpochSize}

\* several devices: epochs of one and two steps, without and with a token
\* budget (reached after the first step)
MultiCfgs ==
    {[BaseCfg EXCEPT !.n_devices = d, !.g_accum_gradients = d,
                     !.train_len = t * d * Unit, !.max_tokens = m * d * Unit] :
        d \in 2..MaxDevices, t \in 1..2, m \in {0, 2}}

Configs == StartupCfgs \cup SchedCfgs \cup MeterCfgs \cup BudgetCfgs
           \cup BudgetStepCfgs \cup MultiCfgs

\* lines 57-64
world_size == IF cfg.n_devices > 1 THEN cfg.n_devices ELSE 1
Procs == 0..(world_size - 1)
device_id(p) == IF cfg.n_devices > 1 THEN p ELSE None
\* the gate left out: every rank counts as the primary
is_main_always(p) == TRUE
is_main(p) == device_id(p) \in {0, None}
g_accum_gradients ==
    IF cfg.g_accum_gradients = None THEN world_size ELSE cfg.g_accum_gradients
accum_gradients == g_accum_gradients \div world_size
validate_every ==
    IF cfg.validate_every = None THEN cfg.save_every ELSE cfg.validate_every
\* lines 127-128
step_tokens == cfg.n_ctx * cfg.batch_size * g_accum_gradients
epoch_size == cfg.train_len \div step_tokens

\* the batches of one validation pass
valid_batches == _valid_batch_iter(cfg.valid_len, cfg.batch_size, cfg.n_ctx)

\* ------------------------------------------------------------ AverageMeter
\* a meter is the number of values it holds
AverageMeter == 0
\* update() that drops the value
update_drop(m) == m
update(m) == m + 1
reset(m) == 0
\* statistics.mean raises StatisticsError on an empty list
mean_raises(m) == m = 0

NoMean == [at |-> "none", n |-> 0, step |-> 0]
NoIntr == [at |-> "none", upd |-> 0, saves |-> 0]
SmpIdle == [fn |-> "none", L |-> 0, n_ctx |-> 0, batch_size |-> 0, out |-> <<>>]

\* ------------------------------------------------------------ initial state
Init ==
    /\ cfg \in Configs
    /\ pc = [p \in Procs |-> "start"]
    /\ ret = [p \in Procs |-> "none"]
    /\ step = [p \in Procs |-> 0]
    /\ epoch = [p \in Procs |-> 0]
    /\ it = [p \in Procs |-> 0]
    /\ mb = [p \in Procs |-> 0]
    /\ upd = [p \in Procs |-> 0]
    /\ barr = [p \in Procs |-> 0]
    /\ grp = [p \in Procs |-> FALSE]
    /\ bound = [p \in Procs |-> FALSE]
    /\ loss_meter = [p \in Procs |-> AverageMeter]
    /\ losses = [p \in Procs |-> AverageMeter]
    /\ vb = [p \in Procs |-> 0]
    /\ dir = cfg.dir0
    /\ saveCalls = 0
    /\ savesDone = 0
    /\ effects = [p \in Procs |-> {}]
    /\ means = [p \in Procs |-> NoMean]
    /\ validDone = [p \in Procs |-> 0]
    /\ intr = [p \in Procs |-> NoIntr]
    /\ exit = [p \in Procs |-> None]
    /\ smp = SmpIdle

\* ------------------------------------------------------------ helpers
Set(f, p, v) == [f EXCEPT ![p] = v]
Did(p, kind) == [effects EXCEPT ![p] = @ \cup {kind}]

\* an uncaught exception other than KeyboardInterrupt: the process ends
\* with a traceback and status 1
Raise(p) ==
    /\ pc' = Set(pc, p, "failed")
    /\ exit' = Set(exit, p, 1)

\* ------------------------------------------------------------ main(): startup
\* the assert left out
accum_divides_unchecked == TRUE

\* line 61: the asserted condition
accum_divides == g_accum_gradients % world_size = 0

\* lines 57-62: the assert on g_accum_gradients
CheckAccum(p) ==
    /\ pc[p] = "start"
    /\ IF accum_divides
       THEN pc' = Set(pc, p, "rundir") /\ UNCHANGED exit
       ELSE Raise(p)
    /\ UNCHANGED <<cfg, ret, step, epoch, it, mb, upd, barr, grp, bound,
                   loss_meter, losses, vb, dir, saveCalls, savesDone, effects,
                   means, validDone, intr, smp>>

\* shutil.rmtree(run_path)
rmtree(d) == NoDir
\* run_path.mkdir(exist_ok=True, parents=True); run_path_mark.touch()
mkdir_touch(d) ==
    [exists |-> TRUE,
     f |-> [d.f EXCEPT ![".lm"] = IF @.present THEN @ ELSE Plain]]

\* the clean without its guard
clean_allowed_any(d) == TRUE

\* line 70: the guard of the destructive clean
clean_allowed(d) == d.f[".lm"].present

\* lines 66-73: the run directory
RunDir(p) ==
    /\ pc[p] = "rundir"
    /\ IF ~is_main(p)
       THEN /\ pc' = Set(pc, p, "params")
            /\ UNCHANGED <<dir, effects, exit>>
       ELSE IF cfg.clean /\ dir.exists /\ ~clean_allowed(dir)
       THEN /\ Raise(p)
            /\ UNCHANGED <<dir, effects>>
       ELSE /\ dir' = IF cfg.clean /\ dir.exists
                      THEN mkdir_touch(rmtree(dir))
                      ELSE mkdir_touch(dir)
            /\ effects' = Did(p, IF cfg.clean /\ dir.exists
                                 THEN "rmtree" ELSE "mkdir")
            /\ pc' = Set(pc, p, "params")
            /\ UNCHANGED exit
    /\ UNCHANGED <<cfg, ret, step, epoch, it, mb, upd, barr, grp, bound,
                   loss_meter, losses, vb, saveCalls, savesDone,
                   means, validDone, intr, smp>>

\* lines 75-97: params.json
Params(p) ==
    /\ pc[p] = "params"
    /\ IF is_main(p)
       THEN /\ dir' = [dir EXCEPT !.f["params.json"] = Plain]
            /\ effects' = Did(p, "params")
       ELSE UNCHANGED <<dir, effects>>
    /\ pc' = Set(pc, p, "device")
    /\ UNCHANGED <<cfg, ret, step, epoch, it, mb, upd, barr, grp, bound,
                   loss_meter, losses, vb, saveCalls, savesDone,
                   means, validDone, intr, exit, smp>>

\* lines 99-114: the datasets, the device, the model, the optimizer, the meter
Device(p) ==
    /\ pc[p] = "device"
    /\ bound' = Set(bound, p, TRUE)
    /\ loss_meter' = Set(loss_meter, p, AverageMeter)
    /\ pc' = Set(pc, p, "group")
    /\ UNCHANGED <<cfg, ret, step, epoch, it, mb, upd, barr, grp,
                   losses, vb, dir, saveCalls, savesDone, effects,
                   means, validDone, intr, exit, smp>>

\* lines 116-121: init_process_group is entered
GroupEnter(p) ==
    /\ pc[p] = "group"
    /\ IF device_id(p) # None
       THEN /\ grp' = Set(grp, p, TRUE)
            /\ pc' = Set(pc, p, "group_wait")
       ELSE /\ pc' = Set(pc, p, "prep")
            /\ UNCHANGED grp
    /\ UNCHANGED <<cfg, ret, step, epoch, it, mb, upd, barr, bound,
                   loss_meter, losses, vb, dir, saveCalls, savesDone, effects,
                   means, validDone, intr, exit, smp>>

\* lines 120-124: init_process_group returns once every rank has entered it
GroupJoined(p) ==
    /\ pc[p] = "group_wait"
    /\ \A q \in Procs : grp[q]
    /\ pc' = Set(pc, p, "prep")
    /\ UNCHANGED <<cfg, ret, step, epoch, it, mb, upd, barr, grp, bound,
                   loss_meter, losses, vb, dir, saveCalls, savesDone, effects,
                   means, validDone, intr, exit, smp>>

\* lines 126-129 and 217-222: step, step_tokens, epoch_size (a division by
\* step_tokens), then the validate-only branch or train().  Line 219 prints
\* a plain string: it has no f prefix, so validate() is not called.
Prep(p) ==
    /\ pc[p] = "prep"
    /\ step' = Set(step, p, 1)
    /\ IF step_tokens = 0
       THEN Raise(p)
       ELSE IF cfg.only_validate
       THEN /\ pc' = Set(pc, p, "done")
            /\ exit' = Set(exit, p, 0)
       ELSE /\ pc' = Set(pc, p, "epoch")
            /\ UNCHANGED exit
    /\ UNCHANGED <<cfg, ret, epoch, it, mb, upd, barr, grp, bound,
                   loss_meter, losses, vb, dir, saveCalls, savesDone, effects,
                   means, validDone, intr, smp>>

\* ------------------------------------------------------------ calls
\* lines 206-210: save() is entered by p, to return to r
CallSave(p, r) ==
    IF is_main(p)
    THEN /\ pc' = Set(pc, p, "sv_cp_m")
         /\ ret' = Set(ret, p, r)
         /\ saveCalls' = saveCalls + 1
    ELSE /\ pc' = Set(pc, p, r)
         /\ UNCHANGED <<ret, saveCalls>>

\* lines 182-198: validate() is entered by p, to return to r; get_valid_loss
\* starts with a fresh meter
CallValidate(p, r) ==
    IF is_main(p)
    THEN /\ pc' = Set(pc, p, "val_batch")
         /\ ret' = Set(ret, p, r)
         /\ losses' = Set(losses, p, AverageMeter)
         /\ vb' = Set(vb, p, 0)
    ELSE /\ pc' = Set(pc, p, r)
         /\ UNCHANGED <<ret, losses, vb>>

\* ------------------------------------------------------------ train()
\* line 153: the loop over the epochs; train() returns after the last one and
\* main() ends
Epoch(p) ==
    /\ pc[p] = "epoch"
    /\ IF epoch[p] < cfg.epochs
       THEN /\ epoch' = Set(epoch, p, epoch[p] + 1)
            /\ it' = Set(it, p, 0)
            /\ pc' = Set(pc, p, "iter")
            /\ UNCHANGED exit
       ELSE /\ pc' = Set(pc, p, "done")
            /\ exit' = Set(exit, p, 0)
            /\ UNCHANGED <<epoch, it>>
    /\ UNCHANGED <<cfg, ret, step, mb, upd, barr, grp, bound,
                   loss_meter, losses, vb, dir, saveCalls, savesDone, effects,
                   means, validDone, intr, smp>>

\* the periodic save one iteration early
save_due_early(s) == (s + 1) % cfg.save_every = 0

\* line 158
save_due(s) == s % cfg.save_every = 0

\* lines 157-159: the loop over the epoch_size iterations of an epoch; an
\* iteration starts with the periodic save
Iter(p) ==
    /\ pc[p] = "iter"
    /\ IF it[p] < epoch_size
       THEN /\ it' = Set(it, p, it[p] + 1)
            /\ IF save_due(step[p])
               THEN CallSave(p, "budget")
               ELSE /\ pc' = Set(pc, p, "budget")
                    /\ UNCHANGED <<ret, saveCalls>>
       ELSE /\ pc' = Set(pc, p, "ep_save")
            /\ UNCHANGED <<it, ret, saveCalls>>
    /\ UNCHANGED <<cfg, step, epoch, mb, upd, barr, grp, bound,
                   loss_meter, losses, vb, dir, savesDone, effects,
                   means, validDone, intr, exit, smp>>

\* line 160
budget_reached(s) ==
    cfg.max_tokens # 0 /\ s * step_tokens >= cfg.max_tokens

\* the micro-batches of one train_step: torch.split of batch_size *
\* accum_gradients rows into chunks of batch_size rows
micro_batches == accum_gradients

\* lines 160-163: the token budget; when reached, save() ...
\* lines 139-142: otherwise train_step() samples its batch and zeroes the
\* gradients
Budget(p) ==
    /\ pc[p] = "budget"
    /\ IF budget_reached(step[p])
       THEN /\ CallSave(p, "bud_val")
            /\ UNCHANGED mb
       ELSE /\ mb' = Set(mb, p, 0)
            /\ pc' = Set(pc, p, IF micro_batches > 0 THEN "fwd" ELSE "opt")
            /\ UNCHANGED <<ret, saveCalls>>
    /\ UNCHANGED <<cfg, step, epoch, it, upd, barr, grp, bound,
                   loss_meter, losses, vb, dir, savesDone, effects,
                   means, validDone, intr, exit, smp>>

\* line 164: ... then validate() ...
BudgetValidate(p) ==
    /\ pc[p] = "bud_val"
    /\ CallValidate(p, "return")
    /\ UNCHANGED <<cfg, step, epoch, it, mb, upd, barr, grp, bound,
                   loss_meter, dir, saveCalls, savesDone, effects,
                   means, validDone, intr, exit, smp>>

\* line 165: ... then train() returns and main() ends
Return(p) ==
    /\ pc[p] = "return"
    /\ pc' = Set(pc, p, "done")
    /\ exit' = Set(exit, p, 0)
    /\ UNCHANGED <<cfg, ret, step, epoch, it, mb, upd, barr, grp, bound,
                   loss_meter, losses, vb, dir, saveCalls, savesDone, effects,
                   means, validDone, intr, smp>>

\* ------------------------------------------------------------ train_step()
\* lines 144-147: forward pass and loss of a micro-batch; backward() enters
\* the gradient all-reduce of the DistributedDataParallel wrapper
Forward(p) ==
    /\ pc[p] = "fwd"
    /\ barr' = Set(barr, p, barr[p] + 1)
    /\ pc' = Set(pc, p, "bwd")
    /\ UNCHANGED <<cfg, ret, step, epoch, it, mb, upd, grp, bound,
                   loss_meter, losses, vb, dir, saveCalls, savesDone, effects,
                   means, validDone, intr, exit, smp>>

\* an all-reduce that returns without the other ranks
reduced_alone(p) == TRUE

\* the all-reduce p has entered is complete: every rank has entered it
reduced(p) == \A q \in Procs : barr[q] >= barr[p]

\* lines 147-148: backward() returns, the loss goes to the meter
Backward(p) ==
    /\ pc[p] = "bwd"
    /\ reduced(p)
    /\ loss_meter' = Set(loss_meter, p, update(loss_meter[p]))
    /\ mb' = Set(mb, p, mb[p] + 1)
    /\ pc' = Set(pc, p, IF mb[p] + 1 < micro_batches THEN "fwd" ELSE "opt")
    /\ UNCHANGED <<cfg, ret, step, epoch, it, upd, barr, grp, bound,
                   losses, vb, dir, saveCalls, savesDone, effects,
                   means, validDone, intr, exit, smp>>

\* line 149: optimizer.step()
OptStep(p) ==
    /\ pc[p] = "opt"
    /\ upd' = Set(upd, p, upd[p] + 1)
    /\ pc' = Set(pc, p, "incr")
    /\ UNCHANGED <<cfg, ret, step, epoch, it, mb, barr, grp, bound,
                   loss_meter, losses, vb, dir, saveCalls, savesDone, effects,
                   means, validDone, intr, exit, smp>>

\* line 167: step += 1
Incr(p) ==
    /\ pc[p] = "incr"
    /\ step' = Set(step, p, step[p] + 1)
    /\ pc' = Set(pc, p, "post")
    /\ UNCHANGED <<cfg, ret, epoch, it, mb, upd, barr, grp, bound,
                   loss_meter, losses, vb, dir, saveCalls, savesDone, effects,
                   means, validDone, intr, exit, smp>>

\* line 171
log_due(p, s) == is_main(p) /\ s % cfg.log_every = 0
\* line 176
validate_due(s) == s % validate_every = 0

\* lines 168-177, the rest of an iteration: the postfix of the progress bar
\* is built on every rank and calls loss_meter.mean(); on a logging tick of
\* the primary the mean is the loss event and the meter is reset; on a
\* validation tick validate() is called
Post(p) ==
    /\ pc[p] = "post"
    /\ means' = Set(means, p, [at |-> IF log_due(p, step[p]) THEN "log" ELSE "pbar",
                               n |-> loss_meter[p], step |-> step[p]])
    /\ IF mean_raises(loss_meter[p])
       THEN /\ Raise(p)
            /\ UNCHANGED <<loss_meter, effects, ret, losses, vb>>
       ELSE /\ IF log_due(p, step[p])
               THEN /\ effects' = Did(p, "loss")
                    /\ loss_meter' = Set(loss_meter, p, reset(loss_meter[p]))
               ELSE UNCHANGED <<effects, loss_meter>>
            /\ IF validate_due(step[p])
               THEN CallValidate(p, "iter")
               ELSE /\ pc' = Set(pc, p, "iter")
                    /\ UNCHANGED <<ret, losses, vb>>
            /\ UNCHANGED exit
    /\ UNCHANGED <<cfg, step, epoch, it, mb, upd, barr, grp, bound,
                   dir, saveCalls, savesDone, validDone, intr, smp>>

\* the end of an epoch without its save()
EpochSave_skipped(p) ==
    /\ pc[p] = "ep_save"
    /\ pc' = Set(pc, p, "ep_val")
    /\ UNCHANGED <<cfg, ret, saveCalls, step, epoch, it, mb, upd, barr, grp,
                   bound, loss_meter, losses, vb, dir, savesDone, effects,
                   means, validDone, intr, exit, smp>>

\* line 179: the save at the end of an epoch
EpochSave(p) ==
    /\ pc[p] = "ep_save"
    /\ CallSave(p, "ep_val")
    /\ UNCHANGED <<cfg, step, epoch, it, mb, upd, barr, grp, bound,
                   loss_meter, losses, vb, dir, savesDone, effects,
                   means, validDone, intr, exit, smp>>

\* line 180: the validation at the end of an epoch
EpochValidate(p) ==
    /\ pc[p] = "ep_val"
    /\ CallValidate(p, "epoch")
    /\ UNCHANGED <<cfg, step, epoch, it, mb, upd, barr, grp, bound,
                   loss_meter, dir, saveCalls, savesDone, effects,
                   means, validDone, intr, exit, smp>>

\* ------------------------------------------------------------ save()
\* the file the save() of p is at
SavePath(p) == IF pc[p] \in {"sv_cp_m", "sv_cp_m2", "sv_wr_m", "sv_wr_m2"}
               THEN "model.pt" ELSE "optim.pt"

\* what torch.save writes at line 214 (model.pt) and line 215 (optim.pt)
Content(p) == [present |-> TRUE, ok |-> TRUE, call |-> saveCalls,
               step |-> IF SavePath(p) = "model.pt" THEN step[p] ELSE 0,
               upd |-> upd[p]]

\* lines 212-213: if path.exists(), shutil.copy opens the -prev file for
\* writing (its old content is gone) ...
CopyBegin(p) ==
    /\ pc[p] \in {"sv_cp_m", "sv_cp_o"}
    /\ LET path == SavePath(p)
           skip == IF path = "model.pt" THEN "sv_cp_o" ELSE "sv_wr_m"
           next == IF path = "model.pt" THEN "sv_cp_m2" ELSE "sv_cp_o2"
       IN  IF dir.f[path].present
           THEN /\ dir' = [dir EXCEPT !.f[Prev(path)] = Partial(dir.f[path])]
                /\ effects' = Did(p, "ckpt")
                /\ pc' = Set(pc, p, next)
           ELSE /\ pc' = Set(pc, p, skip)
                /\ UNCHANGED <<dir, effects>>
    /\ UNCHANGED <<cfg, ret, step, epoch, it, mb, upd, barr, grp, bound,
                   loss_meter, losses, vb, saveCalls, savesDone, means,
                   validDone, intr, exit, smp>>

\* ... and fills it with what the source file holds
CopyEnd(p) ==
    /\ pc[p] \in {"sv_cp_m2", "sv_cp_o2"}
    /\ LET path == SavePath(p)
       IN  /\ dir' = [dir EXCEPT !.f[Prev(path)] = dir.f[path]]
           /\ pc' = Set(pc, p, IF path = "model.pt" THEN "sv_cp_o" ELSE "sv_wr_m")
    /\ UNCHANGED <<cfg, ret, step, epoch, it, mb, upd, barr, grp, bound,
                   loss_meter, losses, vb, saveCalls, savesDone, effects, means,
                   validDone, intr, exit, smp>>

\* lines 214-215: torch.save opens the file for writing ...
WriteBegin(p) ==
    /\ pc[p] \in {"sv_wr_m", "sv_wr_o"}
    /\ LET path == SavePath(p)
       IN  /\ dir' = [dir EXCEPT !.f[path] = Partial(Content(p))]
           /\ pc' = Set(pc, p, IF path = "model.pt" THEN "sv_wr_m2" ELSE "sv_wr_o2")
    /\ effects' = Did(p, "ckpt")
    /\ UNCHANGED <<cfg, ret, step, epoch, it, mb, upd, barr, grp, bound,
                   loss_meter, losses, vb, saveCalls, savesDone, means,
                   validDone, intr, exit, smp>>

\* ... and writes the whole content; after optim.pt, save() returns
WriteEnd(p) ==
    /\ pc[p] \in {"sv_wr_m2", "sv_wr_o2"}
    /\ LET path == SavePath(p)
       IN  /\ dir' = [dir EXCEPT !.f[path].ok = TRUE]
           /\ IF path = "model.pt"
              THEN /\ pc' = Set(pc, p, "sv_wr_o")
                   /\ UNCHANGED savesDone
              ELSE /\ pc' = Set(pc, p, ret[p])
                   /\ savesDone' = savesDone + 1
    /\ UNCHANGED <<cfg, ret, step, epoch, it, mb, upd, barr, grp, bound,
                   loss_meter, losses, vb, saveCalls, effects, means,
                   validDone, intr, exit, smp>>

\* ------------------------------------------------------------ validate()
\* lines 197-202: one batch of the validation iterator.  The model is called
\* on whatever _batch_it yields; on an empty batch it may raise or return a
\* loss.
ValidBatch(p) ==
    /\ pc[p] = "val_batch"
    /\ vb[p] < Len(valid_batches)
    /\ \E raises \in IF valid_batches[vb[p] + 1] = <<>> THEN BOOLEAN ELSE {FALSE} :
          IF raises
          THEN /\ Raise(p)
               /\ UNCHANGED <<losses, vb>>
          ELSE /\ losses' = Set(losses, p, update(losses[p]))
               /\ vb' = Set(vb, p, vb[p] + 1)
               /\ UNCHANGED <<pc, exit>>
    /\ UNCHANGED <<cfg, ret, step, epoch, it, mb, upd, barr, grp, bound,
                   loss_meter, dir, saveCalls, savesDone, effects, means,
                   validDone, intr, smp>>

\* lines 185-187 and 203-204: losses.mean() is the valid_loss event
ValidEnd(p) ==
    /\ pc[p] = "val_batch"
    /\ vb[p] = Len(valid_batches)
    /\ means' = Set(means, p, [at |-> "valid", n |-> losses[p], step |-> step[p]])
    /\ IF mean_raises(losses[p])
       THEN /\ Raise(p)
            /\ UNCHANGED <<effects, validDone>>
       ELSE /\ effects' = Did(p, "valid_loss")
            /\ validDone' = Set(validDone, p, validDone[p] + 1)
            /\ pc' = Set(pc, p, ret[p])
            /\ UNCHANGED exit
    /\ UNCHANGED <<cfg, ret, step, epoch, it, mb, upd, barr, grp, bound,
                   loss_meter, losses, vb, dir, saveCalls, savesDone,
                   intr, smp>>

\* ------------------------------------------------------------ interruption
SavePCs == {"sv_cp_m", "sv_cp_m2", "sv_cp_o", "sv_cp_o2",
            "sv_wr_m", "sv_wr_m2", "sv_wr_o", "sv_wr_o2"}
StepPCs == {"fwd", "opt", "incr"}
\* the positions inside train() where Python code runs (a rank inside the
\* all-reduce handles a signal once the call has returned)
TrainPCs == {"epoch", "iter", "budget", "bud_val", "return", "post",
             "ep_save", "ep_val", "val_batch"}
            \cup SavePCs \cup StepPCs
HandlerPCs == {"handler", "exit1"} \cup SavePCs

\* where in the loop a position is
Where(l) == IF l \in SavePCs THEN "save"
            ELSE IF l = "val_batch" THEN "validate"
            ELSE IF l \in StepPCs THEN "train_step"
            ELSE "between"

\* lines 221-223: KeyboardInterrupt is raised in train() and caught; the
\* frames of train(), train_step(), save() and get_valid_loss() are gone
Interrupt(p) ==
    /\ intr[p].at = "none"
    /\ pc[p] \in TrainPCs
    /\ intr' = Set(intr, p, [at |-> Where(pc[p]), upd |-> upd[p],
                             saves |-> savesDone])
    /\ pc' = Set(pc, p, "handler")
    /\ ret' = Set(ret, p, "none")
    /\ epoch' = Set(epoch, p, 0)
    /\ it' = Set(it, p, 0)
    /\ mb' = Set(mb, p, 0)
    /\ losses' = Set(losses, p, AverageMeter)
    /\ vb' = Set(vb, p, 0)
    /\ UNCHANGED <<cfg, step, upd, barr, grp, bound,
                   loss_meter, dir, saveCalls, savesDone, effects,
                   means, validDone, exit, smp>>

\* the handler without its save(): the primary goes straight to sys.exit(1)
Handler_nosave(p) ==
    /\ pc[p] = "handler"
    /\ IF is_main(p)
       THEN /\ pc' = Set(pc, p, "exit1")
            /\ UNCHANGED exit
       ELSE /\ pc' = Set(pc, p, "done")
            /\ exit' = Set(exit, p, 0)
    /\ UNCHANGED <<cfg, ret, saveCalls, step, epoch, it, mb, upd, barr, grp,
                   bound, loss_meter, losses, vb, dir, savesDone, effects,
                   means, validDone, intr, smp>>

\* lines 224-226: the primary saves; any other rank leaves main()
Handler(p) ==
    /\ pc[p] = "handler"
    /\ IF is_main(p)
       THEN /\ CallSave(p, "exit1")
            /\ UNCHANGED exit
       ELSE /\ pc' = Set(pc, p, "done")
            /\ exit' = Set(exit, p, 0)
            /\ UNCHANGED <<ret, saveCalls>>
    /\ UNCHANGED <<cfg, step, epoch, it, mb, upd, barr, grp, bound,
                   loss_meter, losses, vb, dir, savesDone, effects,
                   means, validDone, intr, smp>>

\* line 227: sys.exit(1)
Exit1(p) ==
    /\ pc[p] = "exit1"
    /\ pc' = Set(pc, p, "exited")
    /\ exit' = Set(exit, p, 1)
    /\ UNCHANGED <<cfg, ret, step, epoch, it, mb, upd, barr, grp, bound,
                   loss_meter, losses, vb, dir, saveCalls, savesDone, effects,
                   means, validDone, intr, smp>>

\* The status of a process ended by an uncaught KeyboardInterrupt: death by
\* SIGINT (130 to a shell) from Python 3.8 on, status 1 before.  Nothing in
\* the program reads it.
SigInt == 130

\* a KeyboardInterrupt raised inside the handler is not caught
Interrupt2(p) ==
    /\ intr[p].at # "none"
    /\ pc[p] \in HandlerPCs
    /\ pc' = Set(pc, p, "killed")
    /\ exit' = Set(exit, p, SigInt)
    /\ UNCHANGED <<cfg, ret, step, epoch, it, mb, upd, barr, grp, bound,
                   loss_meter, losses, vb, dir, saveCalls, savesDone, effects,
                   means, validDone, intr, smp>>

\* ------------------------------------------------------------ the samplers alone
\* _gen_training_batch(dataset, n_ctx, batch_size) with the indices drawn:
\* the slices it returns
_gen_training_batch(L, n_ctx, indices) ==
    [i \in 1..Len(indices) |-> Slice(L, indices[i], n_ctx)]

\* a draw with the upper end included (random.randint)
randint_inclusive(high) == 0..high

\* np.random.randint(0, high) draws from 0..high-1 and raises ValueError
\* when high <= 0
randint(high) == 0..(high - 1)

SmpInputs == [fn : {"none"}, L : 1..MaxLen, n_ctx : 1..MaxCtx,
              batch_size : 1..MaxBatch, out : {<<>>}]

\* _valid_batch_iter is called and its iterator is consumed
ValidIter ==
    /\ smp.fn = "none"
    /\ smp' = [smp EXCEPT !.fn = "valid",
                          !.out = _valid_batch_iter(smp.L, smp.batch_size, smp.n_ctx)]
    /\ UNCHANGED runvars

\* _gen_training_batch is called
TrainBatch ==
    /\ smp.fn = "none"
    /\ IF randint(smp.L - smp.n_ctx) = {}
       THEN smp' = [smp EXCEPT !.fn = "train_raised"]
       ELSE \E indices \in [1..smp.batch_size -> randint(smp.L - smp.n_ctx)] :
               smp' = [smp EXCEPT !.fn = "train",
                                  !.out = _gen_training_batch(smp.L, smp.n_ctx, indices)]
    /\ UNCHANGED runvars

SmpInit ==
    /\ cfg = BaseCfg
    /\ pc = [p \in Procs |-> "start"]
    /\ ret = [p \in Procs |-> "none"]
    /\ step = [p \in Procs |-> 0]
    /\ epoch = [p \in Procs |-> 0]
    /\ it = [p \in Procs |-> 0]
    /\ mb = [p \in Procs |-> 0]
    /\ upd = [p \in Procs |-> 0]
    /\ barr = [p \in Procs |-> 0]
    /\ grp = [p \in Procs |-> FALSE]
    /\ bound = [p \in Procs |-> FALSE]
    /\ loss_meter = [p \in Procs |-> AverageMeter]
    /\ losses = [p \in Procs |-> AverageMeter]
    /\ vb = [p \in Procs |-> 0]
    /\ dir = cfg.dir0
    /\ saveCalls = 0
    /\ savesDone = 0
    /\ effects = [p \in Procs |-> {}]
    /\ means = [p \in Procs |-> NoMean]
    /\ validDone = [p \in Procs |-> 0]
    /\ intr = [p \in Procs |-> NoIntr]
    /\ exit = [p \in Procs |-> None]
    /\ smp \in SmpInputs

SmpNext == ValidIter \/ TrainBatch

\* the samplers applied to every corpus length, context length and batch size
SmpSpec == SmpInit /\ [][SmpNext]_vars

\* ------------------------------------------------------------ specification
\* one step of the training run
RunNext ==
    \/ \E p \in Procs : CheckAccum(p)
    \/ \E p \in Procs : RunDir(p)
    \/ \E p \in Procs : Params(p)
    \/ \E p \in Procs : Device(p)
    \/ \E p \in Procs : GroupEnter(p)
    \/ \E p \in Procs : GroupJoined(p)
    \/ \E p \in Procs : Prep(p)
    \/ \E p \in Procs : Epoch(p)
    \/ \E p \in Procs : Iter(p)
    \/ \E p \in Procs : Budget(p)
    \/ \E p \in Procs : BudgetValidate(p)
    \/ \E p \in Procs : Return(p)
    \/ \E p \in Procs : Forward(p)
    \/ \E p \in Procs : Backward(p)
    \/ \E p \in Procs : OptStep(p)
    \/ \E p \in Procs : Incr(p)
    \/ \E p \in Procs : Post(p)
    \/ \E p \in Procs : EpochSave(p)
    \/ \E p \in Procs : EpochValidate(p)
    \/ \E p \in Procs : CopyBegin(p)
    \/ \E p \in Procs : CopyEnd(p)
    \/ \E p \in Procs : WriteBegin(p)
    \/ \E p \in Procs : WriteEnd(p)
    \/ \E p \in Procs : ValidBatch(p)
    \/ \E p \in Procs : ValidEnd(p)
    \/ \E p \in Procs : Interrupt(p)
    \/ \E p \in Procs : Handler(p)
    \/ \E p \in Procs : Exit1(p)
    \/ \E p \in Procs : Interrupt2(p)

Next == RunNext

Spec == Init /\ [][Next]_vars

\* ------------------------------------------------------------ uninterrupted runs
\* training runs without a token budget
LiveCfgs == {c \in Configs : c.max_tokens = 0 /\ ~c.only_validate}

LiveInit == Init /\ cfg \in LiveCfgs

\* one step of a run in which no KeyboardInterrupt is raised and the token
\* budget is never reached
LiveNext ==
    \/ \E p \in Procs : CheckAccum(p)
    \/ \E p \in Procs : RunDir(p)
    \/ \E p \in Procs : Params(p)
    \/ \E p \in Procs : Device(p)
    \/ \E p \in Procs : GroupEnter(p)
    \/ \E p \in Procs : GroupJoined(p)
    \/ \E p \in Procs : Prep(p)
    \/ \E p \in Procs : Epoch(p)
    \/ \E p \in Procs : Iter(p)
    \/ \E p \in Procs : Budget(p)
    \/ \E p \in Procs : Forward(p)
    \/ \E p \in Procs : Backward(p)
    \/ \E p \in Procs : OptStep(p)
    \/ \E p \in Procs : Incr(p)
    \/ \E p \in Procs : Post(p)
    \/ \E p \in Procs : EpochSave(p)
    \/ \E p \in Procs : EpochValidate(p)
    \/ \E p \in Procs : CopyBegin(p)
    \/ \E p \in Procs : CopyEnd(p)
    \/ \E p \in Procs : WriteBegin(p)
    \/ \E p \in Procs : WriteEnd(p)
    \/ \E p \in Procs : ValidBatch(p)
    \/ \E p \in Procs : ValidEnd(p)

\* the next statement of process p
LiveStep(p) ==
    /\ p \in Procs
    /\ \/ CheckAccum(p) \/ RunDir(p) \/ Params(p) \/ Device(p)
       \/ GroupEnter(p) \/ GroupJoined(p) \/ Prep(p)
       \/ Epoch(p) \/ Iter(p) \/ Budget(p)
       \/ Forward(p) \/ Backward(p) \/ OptStep(p) \/ Incr(p) \/ Post(p)
       \/ EpochSave(p) \/ EpochValidate(p)
       \/ CopyBegin(p) \/ CopyEnd(p) \/ WriteBegin(p) \/ WriteEnd(p)
       \/ ValidBatch(p) \/ ValidEnd(p)

\* every worker is a process of its own (mp.spawn) and runs sequential code:
\* a process whose next statement can run does run it; a process inside
\* init_process_group or an all-reduce waits until the other ranks arrive
Fairness == \A p \in 0..(MaxDevices - 1) : WF_vars(LiveStep(p))

LiveSpec == LiveInit /\ [][LiveNext]_vars /\ Fairness

\* ------------------------------------------------------------ properties
CkptFiles == {"model.pt", "optim.pt", "model-prev.pt", "optim-prev.pt"}
Whole(x) == dir.f[x].present /\ dir.f[x].ok
\* both files of a pair are whole and come from one save() call
PairOK(a, b) == Whole(a) /\ Whole(b) /\ dir.f[a].call = dir.f[b].call

\* C1: an interrupt caught in train() ends the optimizer updates of that
\* process; the primary (rank 0) then runs save() to its end and only then
\* exits, with status 1, unless a second interrupt cuts the handler short; any
\* other rank writes no checkpoint and leaves main().
C1_InterruptSaveExit ==
    /\ \A p \in Procs : intr[p].at # "none" => upd[p] = intr[p].upd
    /\ intr[0].at # "none" =>
          /\ pc[0] \in {"handler", "exit1", "exited", "killed"} \cup SavePCs
          /\ pc[0] \in {"exit1", "exited"} =>
                /\ savesDone = intr[0].saves + 1
                /\ PairOK("model.pt", "optim.pt")
                /\ dir.f["model.pt"].call = saveCalls
                /\ dir.f["model.pt"].step = step[0]
          /\ pc[0] # "exited" => exit[0] \in {None, SigInt}
          /\ pc[0] = "exited" => exit[0] = 1
          /\ exit[0] = SigInt => pc[0] = "killed"
    /\ \A p \in Procs \ {0} : intr[p].at # "none" =>
          /\ pc[p] \in {"handler", "done", "killed"}
          /\ pc[p] = "done" => exit[p] = 0
          /\ "ckpt" \notin effects[p]

\* C1 witness: the primary was interrupted inside a save(), saved again and
\* exited, and another rank was interrupted and stopped
C1_Witness ==
    /\ world_size > 1
    /\ pc[0] = "exited" /\ intr[0].at = "save"
    /\ \E p \in Procs \ {0} : pc[p] = "done" /\ intr[p].at = "train_step"

\* C2: once a first save() has completed, the pair (model.pt, optim.pt) or
\* the pair (model-prev.pt, optim-prev.pt) is whole and written by one call
C2_OneGenerationIntact ==
    savesDone >= 1 =>
        \/ PairOK("model.pt", "optim.pt")
        \/ PairOK("model-prev.pt", "optim-prev.pt")

\* C3: with max_tokens = k * step_tokens, 1 <= k <= epochs * epoch_size, and
\* no interrupt, a process that has left train() has done exactly k optimizer
\* updates and ends with status 0
C3_BudgetUpdates ==
    \A p \in Procs :
        (/\ pc[p] = "done"
         /\ ~cfg.only_validate
         /\ \A q \in Procs : intr[q].at = "none"
         /\ cfg.max_tokens # 0
         /\ cfg.max_tokens % step_tokens = 0
         /\ cfg.max_tokens \div step_tokens <= cfg.epochs * epoch_size)
        => /\ upd[p] = cfg.max_tokens \div step_tokens
           /\ exit[p] = 0

\* C4: with no token budget and no interrupt, when the primary has completed
\* j * save_every iterations (fewer than epoch_size), model.pt is whole and
\* records step j * save_every, and from j = 2 on model-prev.pt is whole and
\* records step (j - 1) * save_every
C4_PeriodicCheckpoint ==
    (/\ pc[0] = "iter"
     /\ epoch[0] = 1
     /\ intr[0].at = "none"
     /\ cfg.max_tokens = 0
     /\ it[0] >= 1
     /\ it[0] % cfg.save_every = 0
     /\ it[0] < epoch_size)
    => /\ Whole("model.pt")
       /\ dir.f["model.pt"].step = it[0]
       /\ it[0] >= 2 * cfg.save_every =>
             /\ Whole("model-prev.pt")
             /\ dir.f["model-prev.pt"].step = it[0] - cfg.save_every

\* C4 witness: two iterations done with save_every = 1
C4_Witness ==
    /\ pc[0] = "iter" /\ epoch[0] = 1 /\ it[0] = 2 /\ epoch_size = 3
    /\ cfg.save_every = 1 /\ cfg.max_tokens = 0 /\ intr[0].at = "none"
    /\ dir.f["model-prev.pt"].step = 1

\* the run started on a directory that held the checkpoint of an earlier run
HadCkpt == cfg.dir0.f["model.pt"].present /\ ~cfg.clean

\* C5: when N save() calls have been made and all ran to their end, model.pt
\* and optim.pt hold the content of call N; for N >= 2 the -prev files hold
\* the content of call N - 1 and no checkpoint file holds older content; for
\* N = 1 there is no -prev file (unless the directory came with the
\* checkpoint of an earlier run, whose last save() is then the one before)
C5_TwoGenerations ==
    (saveCalls = savesDone /\ savesDone >= 1) =>
        /\ PairOK("model.pt", "optim.pt")
        /\ dir.f["model.pt"].call = savesDone
        /\ savesDone >= 2 =>
              /\ PairOK("model-prev.pt", "optim-prev.pt")
              /\ dir.f["model-prev.pt"].call = savesDone - 1
              /\ \A x \in CkptFiles :
                    dir.f[x].present => dir.f[x].call >= savesDone - 1
        /\ savesDone = 1 =>
              \A x \in {"model-prev.pt", "optim-prev.pt"} :
                  IF HadCkpt THEN dir.f[x] = OldCkpt ELSE ~dir.f[x].present

\* C5 witness: three save() calls done on a fresh directory
C5_Witness ==
    /\ saveCalls = 3 /\ savesDone = 3 /\ ~HadCkpt
    /\ dir.f["optim-prev.pt"].call = 2

\* C6: in validate-only mode the primary ends after exactly one validation
\* pass, with no optimizer update and no checkpoint
C6_ValidateOnly ==
    (cfg.only_validate /\ pc[0] = "done") =>
        /\ validDone[0] = 1
        /\ upd[0] = 0
        /\ "ckpt" \notin effects[0]

\* a process that failed before it created its device did so at the guard
\* of the destructive clean (line 70)
FailedAtClean(p) ==
    p = 0 /\ cfg.clean /\ cfg.dir0.exists /\ ~cfg.dir0.f[".lm"].present

\* C7 as stated: g_accum_gradients % world_size # 0 aborts before anything
\* is touched; otherwise startup goes on with local_accum * world_size =
\* g_accum_gradients and local_accum >= 1
C7_AccumCheck ==
    \A p \in Procs :
        IF g_accum_gradients % world_size # 0
        THEN /\ pc[p] \in {"start", "failed"}
             /\ ~bound[p] /\ ~grp[p] /\ upd[p] = 0
             /\ effects[p] = {}
             /\ dir = cfg.dir0
        ELSE pc[p] # "start" =>
             /\ accum_gradients * world_size = g_accum_gradients
             /\ accum_gradients >= 1
             /\ (pc[p] = "failed" /\ ~bound[p]) => FailedAtClean(p)

\* C7 amended: the same for g_accum_gradients >= 1 (or unset)
C7_AccumCheckPositive ==
    \A p \in Procs :
        IF g_accum_gradients % world_size # 0
        THEN /\ pc[p] \in {"start", "failed"}
             /\ ~bound[p] /\ ~grp[p] /\ upd[p] = 0
             /\ effects[p] = {}
             /\ dir = cfg.dir0
        ELSE (g_accum_gradients >= 1 /\ pc[p] # "start") =>
             /\ accum_gradients * world_size = g_accum_gradients
             /\ accum_gradients >= 1
             /\ (pc[p] = "failed" /\ ~bound[p]) => FailedAtClean(p)

\* C7 witness: two devices, g_accum_gradients = 1, clean set on an old run
\* directory: both processes have aborted
C7_Witness ==
    /\ world_size = 2 /\ cfg.g_accum_gradients = 1
    /\ cfg.clean /\ cfg.dir0 = OldRunDir
    /\ \A p \in Procs : pc[p] = "failed"

\* C8: no rank other than 0 creates or cleans the run directory, writes
\* params.json, writes a checkpoint file or emits a loss or valid_loss event
C8_PrimaryOnly == \A p \in Procs \ {0} : effects[p] = {}

\* C8 witness: a run on several devices has ended at the token budget, and
\* rank 0 has done every kind of side effect
C8_Witness ==
    /\ world_size > 1
    /\ cfg.max_tokens # 0
    /\ \A p \in Procs : pc[p] = "done" /\ upd[p] = 1
    /\ epoch_size = 2
    /\ {"mkdir", "params", "ckpt", "loss", "valid_loss"} \subseteq effects[0]

\* C9: every mean() call, of the training meter (progress display and log
\* flush) and of the meter of a validation pass, found at least one value
C9_MeanAfterUpdate ==
    \A p \in Procs : means[p].at # "none" => means[p].n >= 1

\* C9 witness: with log_every = 1 the meter was reset after the first
\* iteration and the log flush of the second iteration called mean()
C9_Witness ==
    /\ cfg.log_every = 1
    /\ step[0] = 3 /\ means[0].at = "log" /\ means[0].n = accum_gradients
    /\ pc[0] = "iter"

RECURSIVE Flatten(_)
Flatten(batches) ==
    IF batches = <<>> THEN <<>> ELSE Head(batches) \o Flatten(Tail(batches))

RECURSIVE Covered(_)
Covered(windows) ==
    IF windows = <<>> THEN 0
    ELSE Head(windows)[2] - Head(windows)[1] + Covered(Tail(windows))

\* C10: for L > C the validation iterator yields the windows [0,C), [C,2C),
\* ... in order, and they cover C * floor((L - C) / C + 1) positions
C10_ValidCoverage ==
    (smp.fn = "valid" /\ smp.L > smp.n_ctx) =>
        LET w == Flatten(smp.out)
        IN  /\ \A i \in 1..Len(w) :
                  w[i] = <<(i - 1) * smp.n_ctx, i * smp.n_ctx>>
            /\ Covered(w) = smp.n_ctx * ((smp.L - smp.n_ctx) \div smp.n_ctx + 1)

\* C11: for L > C and every batch size, _gen_training_batch returns
\* batch_size slices; each starts at an offset in [0, L - C), ends at or
\* before L, and holds exactly C positions
C11_TrainSlices ==
    /\ smp.L > smp.n_ctx => smp.fn # "train_raised"
    /\ (smp.fn = "train" /\ smp.L > smp.n_ctx) =>
          /\ Len(smp.out) = smp.batch_size
          /\ \A i \in 1..Len(smp.out) :
                /\ smp.out[i][1] >= 0
                /\ smp.out[i][1] < smp.L - smp.n_ctx
                /\ smp.out[i][2] <= smp.L
                /\ smp.out[i][2] - smp.out[i][1] = smp.n_ctx

\* C11 witness: a batch of MaxBatch slices of MaxCtx tokens of the longest
\* corpus, one at the first and one at the last offset that can be drawn
C11_Witness ==
    /\ smp.fn = "train" /\ smp.L = MaxLen /\ smp.n_ctx = MaxCtx
    /\ smp.batch_size = MaxBatch
    /\ smp.out[1] = <<0, MaxCtx>>
    /\ smp.out[MaxBatch] = <<MaxLen - MaxCtx - 1, MaxLen - 1>>

\* C12: every whole model file a save() of this run has written (and its
\* backup copy) holds the parameters after exactly step - 1 optimizer
\* updates, step being the counter the file records, and the optimizer file
\* of the same save() holds the optimizer state after as many updates
C12_WholeSteps ==
    /\ \A x \in {"model.pt", "model-prev.pt"} :
          (Whole(x) /\ dir.f[x].call >= 1) =>
              dir.f[x].upd = dir.f[x].step - 1
    /\ (PairOK("model.pt", "optim.pt") /\ dir.f["model.pt"].call >= 1) =>
          dir.f["optim.pt"].upd = dir.f["model.pt"].upd

\* C13: the interrupt a process handles was raised outside train_step() and
\* before or after the pair train_step(); step += 1, so the handler finds as
\* many optimizer updates as the step counter says
C13_StepGranularity ==
    \A p \in Procs :
        intr[p].at # "none" =>
            /\ intr[p].at # "train_step"
            /\ upd[p] = step[p] - 1

\* no rank has caught an interrupt or ended with an exception
NoFault == \A q \in Procs : intr[q].at = "none" /\ pc[q] # "failed"

\* C14: on several devices, as long as no rank is interrupted or fails, the
\* optimizer updates of two ranks differ by at most 1; two ranks at the same
\* place of the same iteration have the same step, and so have two ranks that
\* have left the loop at the token budget or at its end
C14_Lockstep ==
    (world_size > 1 /\ NoFault) =>
        \A p, q \in Procs :
            /\ upd[p] - upd[q] <= 1
            /\ (pc[p] = pc[q] /\ epoch[p] = epoch[q] /\ it[p] = it[q]) =>
                  step[p] = step[q]
            /\ (pc[p] \in {"bud_val", "return", "done"}
                /\ pc[q] \in {"bud_val", "return", "done"}) =>
                  /\ step[p] = step[q]
                  /\ upd[p] = upd[q]

\* C14 witness: rank 0 has written a checkpoint and run a validation after
\* the first update and waits in the all-reduce of the second, which another
\* rank has already left and applied
C14_Witness ==
    /\ world_size > 1 /\ NoFault
    /\ {"ckpt", "valid_loss"} \subseteq effects[0]
    /\ pc[0] = "bwd" /\ upd[0] = 1
    /\ \E p \in Procs \ {0} : upd[p] = 2

\* the iterations at whose start the periodic save was due, up to step s
PeriodicSaves(s) == s \div cfg.save_every
\* the steps 2..s at which the periodic validation was due
PeriodicValids(s) ==
    s \div validate_every - (IF validate_every = 1 /\ s >= 1 THEN 1 ELSE 0)

\* what rank 0 has saved and validated when it is in its epoch-th epoch:
\* while an update runs, the checkpoints and validations of the epochs before
\* are done; when validate() is called at the end of an epoch, the checkpoint
\* of that epoch is whole and holds all its updates; when the next epoch is
\* about to begin, the validation of the epoch is done too
EpochEndOrder ==
    /\ pc[0] \in {"fwd", "bwd", "opt"} =>
          /\ upd[0] = (epoch[0] - 1) * epoch_size + it[0] - 1
          /\ savesDone = PeriodicSaves(step[0]) + epoch[0] - 1
          /\ validDone[0] = PeriodicValids(step[0]) + epoch[0] - 1
    /\ (pc[0] = "ep_val" \/ (pc[0] = "val_batch" /\ ret[0] = "epoch")) =>
          /\ upd[0] = epoch[0] * epoch_size
          /\ savesDone = PeriodicSaves(step[0] - 1) + epoch[0]
          /\ validDone[0] = PeriodicValids(step[0]) + epoch[0] - 1
          /\ PairOK("model.pt", "optim.pt")
          /\ dir.f["model.pt"].upd = upd[0]
          /\ dir.f["optim.pt"].upd = upd[0]
    /\ (pc[0] = "epoch" /\ epoch[0] >= 1) =>
          /\ savesDone = PeriodicSaves(step[0] - 1) + epoch[0]
          /\ validDone[0] = PeriodicValids(step[0]) + epoch[0]

\* every rank has left main() after epochs * epoch_size optimizer updates
AllDone ==
    \A p \in Procs : pc[p] = "done" /\ upd[p] = cfg.epochs * epoch_size

\* C15: in a run without token budget and without interrupt, unless a rank
\* ends with an exception, every rank eventually leaves main() after exactly
\* epochs * epoch_size updates; and after the last update of every epoch rank
\* 0 completes a save() and then a validation before the next epoch begins
C15_EpochsTerminate ==
    /\ <>((\E p \in Procs : pc[p] = "failed") \/ AllDone)
    /\ [](AllDone => \A p \in Procs : exit[p] = 0)
    /\ []EpochEndOrder

\* C15 witness: a run of MaxEpochs epochs of MaxEpochSize updates has ended
\* with the checkpoint and the validation of its last epoch
C15_Witness ==
    /\ cfg.epochs = MaxEpochs /\ epoch_size = MaxEpochSize
    /\ AllDone
    /\ savesDone = PeriodicSaves(step[0] - 1) + MaxEpochs
    /\ validDone[0] = PeriodicValids(step[0]) + MaxEpochs
    /\ dir.f["model.pt"].upd = MaxEpochs * MaxEpochSize

\* rank 0 is past the token budget test of line 160 that ended the loop
AtBudgetStop ==
    /\ intr[0].at = "none"
    /\ budget_reached(step[0])
    /\ \/ pc[0] \in {"bud_val", "return"}
       \/ pc[0] \in SavePCs /\ ret[0] = "bud_val"
       \/ pc[0] = "val_batch" /\ ret[0] = "return"
       \/ pc[0] = "done" /\ ~cfg.only_validate

\* C16: when the token budget ends the loop, the save() of line 163 writes
\* the only checkpoint of that step value (the checkpoint it moves to the
\* backup is of an earlier step) and the validate() of line 164 is the only
\* validation at that step value (the mean() call before it was not the one
\* of a validation at the same step)
C16_BudgetOnce ==
    AtBudgetStop =>
        /\ (pc[0] \in {"bud_val", "return", "val_batch", "done"}
            /\ dir.f["model-prev.pt"].present
            /\ dir.f["model-prev.pt"].call >= 1) =>
              dir.f["model-prev.pt"].step < dir.f["model.pt"].step
        /\ pc[0] = "val_batch" =>
              ~(means[0].at = "valid" /\ means[0].step = step[0])

\* C17: every batch of the validation iterator holds 1..batch_size windows of
\* n_ctx tokens each, every batch but the last holds batch_size windows, and
\* the batches in order are the windows of the corpus, each once
C17_ValidBatches ==
    smp.fn = "valid" =>
        /\ \A i \in 1..Len(smp.out) :
              /\ Len(smp.out[i]) >= 1
              /\ Len(smp.out[i]) <= smp.batch_size
              /\ i < Len(smp.out) => Len(smp.out[i]) = smp.batch_size
              /\ \A j \in 1..Len(smp.out[i]) :
                    smp.out[i][j][2] - smp.out[i][j][1] = smp.n_ctx
        /\ Flatten(smp.out) = valid_windows(smp.L, smp.n_ctx)

\* C18: on every rank the training meter holds at most log_every *
\* accum_gradients values, and a mean() of it covers at most as many
C18_MeterBounded ==
    \A p \in Procs :
        /\ loss_meter[p] <= cfg.log_every * accum_gradients
        /\ means[p].at \in {"pbar", "log"} =>
              means[p].n <= cfg.log_every * accum_gradients

\* the run directory the run started from has no .lm marker and clean is set
CleanRefused == cfg.clean /\ cfg.dir0.exists /\ ~cfg.dir0.f[".lm"].present

\* C19: only rank 0 removes the run directory, only with clean set and the
\* .lm marker in it; without a removal no file of the directory is lost; with
\* clean set on a directory without the marker rank 0 ends with an exception
\* and the directory is as it was; and once rank 0 is past the startup the
\* directory holds the marker
C19_CleanGuard ==
    /\ \A p \in Procs :
          "rmtree" \in effects[p] =>
              /\ p = 0
              /\ cfg.clean
              /\ cfg.dir0.exists
              /\ cfg.dir0.f[".lm"].present
    /\ "rmtree" \notin effects[0] =>
          \A x \in Files : cfg.dir0.f[x].present => dir.f[x].present
    /\ CleanRefused =>
          /\ dir = cfg.dir0
          /\ pc[0] \in {"start", "rundir", "failed"}
          /\ pc[0] = "failed" => exit[0] = 1
    /\ (pc[0] \notin {"start", "rundir"} /\ ~(pc[0] = "failed" /\ ~bound[0])) =>
          /\ dir.exists
          /\ dir.f[".lm"].present

\* C19 witness: a run on several devices with clean set has removed the run
\* directory of an earlier run, checkpoint included, and has ended with a
\* new checkpoint in a directory that holds the marker
C19_Witness ==
    /\ world_size > 1 /\ cfg.clean /\ cfg.dir0 = OldRunDir
    /\ "rmtree" \in effects[0]
    /\ pc[0] = "done" /\ ~cfg.only_validate
    /\ dir.f[".lm"].present
    /\ dir.f["model.pt"].call = 1
    /\ ~dir.f["model-prev.pt"].present

\* no save() is running and none was cut short since the last one that ran
\* to its end
SaveQuiet == pc[0] \notin SavePCs \cup {"handler", "killed"}

\* C20: when no save() is in progress and both backup files exist, they are
\* whole copies of files written by one save() call, and model-prev.pt
\* records a step that is not greater than that of model.pt
C20_BackupPair ==
    (/\ SaveQuiet
     /\ dir.f["model-prev.pt"].present
     /\ dir.f["optim-prev.pt"].present)
    => /\ PairOK("model-prev.pt", "optim-prev.pt")
       /\ dir.f["model-prev.pt"].step <= dir.f["model.pt"].step
====
